---- MODULE Spec2Model ----
(***************************************************************************)
(* Table-aware document splitter of the banking RAG assistant              *)
(* (src/src/document_processors/table_aware_splitter.py).                  *)
(*                                                                         *)
(* Text is modelled character by character: a string is a sequence of     *)
(* one-character strings, so the regular expressions, str.split, str.strip *)
(* and len() of the source are computed, not assumed.                      *)
(***************************************************************************)
EXTENDS Integers, Sequences, FiniteSets, TLC

(***************************************************************************)
(* Characters and Python string primitives                                 *)
(***************************************************************************)
NL == "\n"

Digits == {"0", "1", "2", "3", "4", "5", "6", "7", "8", "9"}

UpperSeq == <<"A","B","C","D","E","F","G","H","I","J","K","L","M",
              "N","O","P","Q","R","S","T","U","V","W","X","Y","Z">>

LowerSeq == <<"a","b","c","d","e","f","g","h","i","j","k","l","m",
              "n","o","p","q","r","s","t","u","v","w","x","y","z">>

IsDigit(c) == c \in Digits

IsUpper(c) == \E i \in 1..26 : UpperSeq[i] = c

IsLower(c) == \E i \in 1..26 : LowerSeq[i] = c

\* str.lower() of one character
Lower(c) == IF IsUpper(c) THEN LowerSeq[CHOOSE i \in 1..26 : UpperSeq[i] = c] ELSE c

\* characters removed by str.strip()
IsSpace(c) == c \in {" ", NL}

Min(a, b) == IF a < b THEN a ELSE b

\* s[p-1:] in Python terms (p is 1-based here)
From(s, p) == IF p > Len(s) THEN <<>> ELSE SubSeq(s, p, Len(s))

\* the literal lit stands in s at position p; ci = under re.IGNORECASE
LitAt(s, p, lit, ci) ==
    /\ p >= 1
    /\ p + Len(lit) - 1 <= Len(s)
    /\ \A i \in 1..Len(lit) :
          IF ci THEN Lower(s[p + i - 1]) = Lower(lit[i]) ELSE s[p + i - 1] = lit[i]

\* smallest index >= p holding character c, 0 when there is none
RECURSIVE IndexOf(_, _, _)
IndexOf(s, c, p) ==
    IF p > Len(s) THEN 0
    ELSE IF s[p] = c THEN p
    ELSE IndexOf(s, c, p + 1)

\* str.split(c)
RECURSIVE SplitOn(_, _)
SplitOn(s, c) ==
    LET i == IndexOf(s, c, 1)
    IN  IF i = 0 THEN <<s>>
        ELSE <<SubSeq(s, 1, i - 1)>> \o SplitOn(From(s, i + 1), c)

\* sep.join(parts)
RECURSIVE Join(_, _)
Join(parts, sep) ==
    IF Len(parts) = 0 THEN <<>>
    ELSE IF Len(parts) = 1 THEN parts[1]
    ELSE parts[1] \o sep \o Join(Tail(parts), sep)

RECURSIVE LStrip(_)
LStrip(s) ==
    IF Len(s) = 0 THEN s
    ELSE IF IsSpace(s[1]) THEN LStrip(Tail(s))
    ELSE s

RECURSIVE RStrip(_)
RStrip(s) ==
    IF Len(s) = 0 THEN s
    ELSE IF IsSpace(s[Len(s)]) THEN RStrip(SubSeq(s, 1, Len(s) - 1))
    ELSE s

\* str.strip()
Strip(s) == RStrip(LStrip(s))

\* s.startswith(pre)
StartsWith(s, pre) == LitAt(s, 1, pre, FALSE)

\* sub in s
RECURSIVE ContainsFrom(_, _, _)
ContainsFrom(s, sub, p) ==
    IF p + Len(sub) - 1 > Len(s) THEN FALSE
    ELSE IF LitAt(s, p, sub, FALSE) THEN TRUE
    ELSE ContainsFrom(s, sub, p + 1)

Contains(s, sub) == ContainsFrom(s, sub, 1)

\* str(n) for n >= 0
RECURSIVE IntToStr(_)
IntToStr(n) ==
    LET d == <<"0", "1", "2", "3", "4", "5", "6", "7", "8", "9">>
    IN  IF n < 10 THEN <<d[n + 1]>>
        ELSE IntToStr(n \div 10) \o <<d[(n % 10) + 1]>>

(***************************************************************************)
(* Regular expressions of __init__ and of the helpers                      *)
(***************************************************************************)
LitTable == <<"T","a","b","l","e"," ">>

LitHashTable == <<"#","#","#"," ">> \o LitTable

LitSee == <<"s","e","e"," ">>

LitReferTo == <<"r","e","f","e","r"," ","t","o"," ">>

LitHashes == <<"#","#","#">>

LitDashes == <<"-","-","-">>

\* \d+ at p, greedy: the index after the last digit, 0 when s[p] is no digit
RECURSIVE DigitsEnd(_, _)
DigitsEnd(s, p) ==
    IF p > Len(s) \/ ~IsDigit(s[p]) THEN 0
    ELSE IF p + 1 <= Len(s) /\ IsDigit(s[p + 1]) THEN DigitsEnd(s, p + 1)
    ELSE p + 1

\* [A-Z]?\d+\.\d+ at p: the index after the match, 0 when it does not match.
\* Under re.IGNORECASE the class [A-Z] also takes a lower-case letter.
IdEnd(s, p, ci) ==
    LET letter == p <= Len(s) /\ (IsUpper(s[p]) \/ (ci /\ IsLower(s[p])))
        q  == IF letter THEN p + 1 ELSE p
        d1 == DigitsEnd(s, q)
    IN  IF d1 = 0 \/ d1 > Len(s) \/ s[d1] # "." THEN 0
        ELSE DigitsEnd(s, d1 + 1)

\* Table [A-Z]?\d+\.\d+ at p (group 1 is the identifier)
TableIdEnd(s, p, ci) ==
    IF LitAt(s, p, LitTable, ci) THEN IdEnd(s, p + Len(LitTable), ci) ELSE 0

(***************************************************************************)
(* table_pattern, compiled with re.MULTILINE | re.DOTALL:                  *)
(*   (### Table [A-Z]?\d+\.\d+:.*?\n(?:\|.*?\|.*?\n)+)                     *)
(* Under DOTALL the lazy .*? also crosses line ends.                       *)
(***************************************************************************)
\* \|.*?\|.*?\n at r: the index after the row's line end, 0 when no match
RowEnd(s, r) ==
    IF r > Len(s) \/ s[r] # "|" THEN 0
    ELSE LET b == IndexOf(s, "|", r + 1)
         IN  IF b = 0 THEN 0
             ELSE LET e == IndexOf(s, NL, b + 1)
                  IN  IF e = 0 THEN 0 ELSE e + 1

\* (?:row)+ continued greedily from r, where one row has already matched
RECURSIVE RowsEnd(_, _)
RowsEnd(s, r) ==
    LET e == RowEnd(s, r)
    IN  IF e = 0 THEN r ELSE RowsEnd(s, e)

\* .*?\n(?:row)+ from c: the lazy .*? stops at the first line end that is
\* followed by a row
RECURSIVE TitleRestEnd(_, _)
TitleRestEnd(s, c) ==
    LET q == IndexOf(s, NL, c)
    IN  IF q = 0 THEN 0
        ELSE IF RowEnd(s, q + 1) # 0 THEN RowsEnd(s, q + 1)
        ELSE TitleRestEnd(s, q + 1)

\* table_pattern at p: the index after the match, 0 when it does not match
TablePatternAt(s, p) ==
    IF ~LitAt(s, p, LitHashTable, FALSE) THEN 0
    ELSE LET e == IdEnd(s, p + Len(LitHashTable), FALSE)
         IN  IF e = 0 \/ e > Len(s) \/ s[e] # ":" THEN 0
             ELSE TitleRestEnd(s, e + 1)

\* table_pattern.finditer(text): the spans <<start, end>> of the matches,
\* as Python offsets (start inclusive from 0, end exclusive)
RECURSIVE TableMatches(_, _)
TableMatches(s, p) ==
    IF p > Len(s) THEN <<>>
    ELSE LET e == TablePatternAt(s, p)
         IN  IF e = 0 THEN TableMatches(s, p + 1)
             ELSE <<<<p - 1, e - 1>>>> \o TableMatches(s, e)

\* s[a:b]
Slice(s, a, b) == IF b <= a THEN <<>> ELSE SubSeq(s, a + 1, Min(b, Len(s)))

StrUnknown == <<"U","n","k","n","o","w","n">>

StrUntitledTable == <<"U","n","t","i","t","l","e","d"," ","T","a","b","l","e">>

StrUnknownTable == <<"U","n","k","n","o","w","n"," ","T","a","b","l","e">>

\* re.search(r'Table ([A-Z]?\d+\.\d+)', s): group 1 of the first match
\* from p on, <<>> when there is no match
RECURSIVE SearchTableId(_, _)
SearchTableId(s, p) ==
    IF p > Len(s) THEN <<>>
    ELSE LET e == TableIdEnd(s, p, FALSE)
         IN  IF e = 0 THEN SearchTableId(s, p + 1)
             ELSE SubSeq(s, p + Len(LitTable), e - 1)

HasTableId(s) == SearchTableId(s, 1) # <<>>

\* re.search(r'### Table [A-Z]?\d+\.\d+: (.*?)\n', s) from p on:
\* <<TRUE, group 1>> for the first match, <<FALSE, <<>>>> when there is none
RECURSIVE SearchTitle(_, _)
SearchTitle(s, p) ==
    IF p > Len(s) THEN <<FALSE, <<>>>>
    ELSE LET e  == IF LitAt(s, p, LitHashTable, FALSE)
                   THEN IdEnd(s, p + Len(LitHashTable), FALSE) ELSE 0
             ok == e # 0 /\ LitAt(s, e, <<":", " ">>, FALSE)
             n  == IF ok THEN IndexOf(s, NL, e + 2) ELSE 0
         IN  IF n = 0 THEN SearchTitle(s, p + 1)
             ELSE <<TRUE, SubSeq(s, e + 2, n - 1)>>

(***************************************************************************)
(* _extract_tables                                                         *)
(***************************************************************************)
TableOfMatch(text, m) ==
    LET table_content  == Slice(text, m[1], m[2])
        table_id_match == SearchTableId(table_content, 1)
        title_match    == SearchTitle(table_content, 1)
    IN  [id      |-> IF table_id_match # <<>> THEN table_id_match ELSE StrUnknown,
         title   |-> IF title_match[1] THEN title_match[2] ELSE StrUntitledTable,
         content |-> table_content,
         start   |-> m[1],
         end     |-> m[2]]

ExtractTablesOf(text) ==
    LET ms == TableMatches(text, 1)
    IN  [i \in 1..Len(ms) |-> TableOfMatch(text, ms[i])]

(***************************************************************************)
(* _split_around_tables                                                    *)
(***************************************************************************)
StrTextBefore == <<"T","e","x","t"," ","b","e","f","o","r","e"," ">>

StrTextAfterTables == <<"T","e","x","t"," ","a","f","t","e","r"," ","t","a","b","l","e","s">>

TextSection(content, context) ==
    [type |-> "text", content |-> content, context |-> context,
     table_id |-> <<>>, table_title |-> <<>>]

TableSection(table) ==
    [type |-> "table", content |-> table.content,
     context |-> LitTable \o table.id \o <<":", " ">> \o table.title,
     table_id |-> table.id, table_title |-> table.title]

\* the loop over tables, from table i on, with last_end as it stands
RECURSIVE SectionsFrom(_, _, _, _)
SectionsFrom(text, tabs, i, last_end) ==
    IF i > Len(tabs)
    THEN LET remaining_text == Strip(Slice(text, last_end, Len(text)))
         IN  IF last_end < Len(text) /\ remaining_text # <<>>
             THEN <<TextSection(remaining_text, StrTextAfterTables)>>
             ELSE <<>>
    ELSE LET table          == tabs[i]
             pre_table_text == Strip(Slice(text, last_end, table.start))
             pre == IF table.start > last_end /\ pre_table_text # <<>>
                    THEN <<TextSection(pre_table_text, StrTextBefore \o table.id)>>
                    ELSE <<>>
         IN  pre \o <<TableSection(table)>> \o SectionsFrom(text, tabs, i + 1, table.end)

\* variant: the text after the last table is not added
SplitAroundTablesNoTail(text, tabs) ==
    IF tabs = <<>> THEN <<>>
    ELSE SectionsFrom(Slice(text, 0, tabs[Len(tabs)].end), tabs, 1, 0)

\* variant: every section is put at the head of the list
SplitAroundTablesReversed(text, tabs) ==
    LET secs == SectionsFrom(text, tabs, 1, 0)
    IN  [i \in 1..Len(secs) |-> secs[Len(secs) + 1 - i]]

SplitAroundTablesOf(text, tabs) == SectionsFrom(text, tabs, 1, 0)

(***************************************************************************)
(* Chunks: a Document with the metadata keys the splitter sets.  An absent *)
(* key is <<>> (table_id, table_title, cross_references) or 0 (part);      *)
(* source is the metadata copied from the input document.                  *)
(***************************************************************************)
Chunk(content, type, table_id, table_title, context, part, source) ==
    [page_content |-> content, chunk_type |-> type, table_id |-> table_id,
     table_title |-> table_title, context |-> context, part |-> part,
     cross_references |-> <<>>, source |-> source]

(***************************************************************************)
(* _split_large_table                                                      *)
(***************************************************************************)
\* the classification loop over lines, from line i on; yields
\* <<header_lines, data_lines>>
RECURSIVE ClassifyLines(_, _, _, _, _)
ClassifyLines(lines, i, in_header, header_lines, data_lines) ==
    IF i > Len(lines) THEN <<header_lines, data_lines>>
    ELSE LET line == lines[i]
         IN  IF StartsWith(line, LitHashes)
             THEN ClassifyLines(lines, i + 1, in_header, Append(header_lines, line), data_lines)
             ELSE IF StartsWith(line, <<"|">>) /\ Contains(line, LitDashes)
             THEN ClassifyLines(lines, i + 1, FALSE, Append(header_lines, line), data_lines)
             ELSE IF StartsWith(line, <<"|">>) /\ in_header
             THEN ClassifyLines(lines, i + 1, in_header, Append(header_lines, line), data_lines)
             ELSE IF StartsWith(line, <<"|">>)
             THEN ClassifyLines(lines, i + 1, in_header, header_lines, Append(data_lines, line))
             ELSE IF in_header
             THEN ClassifyLines(lines, i + 1, in_header, Append(header_lines, line), data_lines)
             ELSE ClassifyLines(lines, i + 1, in_header, header_lines, Append(data_lines, line))

HeaderLinesOf(content) == ClassifyLines(SplitOn(content, NL), 1, TRUE, <<>>, <<>>)[1]

DataLinesOf(content) == ClassifyLines(SplitOn(content, NL), 1, TRUE, <<>>, <<>>)[2]

\* variant: the title line left out of the repeated header
HeaderTextNoTitle(header_lines) == Join(Tail(header_lines), <<NL>>)

HeaderTextOf(header_lines) == Join(header_lines, <<NL>>)

\* chunk_content = header_text + '\n' + '\n'.join(current_chunk_lines)
PartContent(header_text, current_chunk_lines) ==
    header_text \o <<NL>> \o Join(current_chunk_lines, <<NL>>)

\* variant: the part index counted from 0
PartNumberFromZero(chunks) == Len(chunks)

\* the index written into the context label: len(chunks) + 1
PartNumber(chunks) == Len(chunks) + 1

LitPartOpen == <<" ","(","P","a","r","t"," ">>

PartContext(context, n) == context \o LitPartOpen \o IntToStr(n) \o <<")">>

TablePartChunk(section, source, header_text, current_chunk_lines, chunks) ==
    Chunk(PartContent(header_text, current_chunk_lines), "table_part",
          section.table_id, section.table_title,
          PartContext(section.context, PartNumber(chunks)), 0, source)

\* variant: the emptiness test of the flush turned around
MustFlushInverted(current_size, line_size, current_chunk_lines, size) ==
    current_size + line_size > size /\ current_chunk_lines = <<>>

\* variant: the flush test without the size of the line about to be added
MustFlushLate(current_size, line_size, current_chunk_lines, size) ==
    current_size > size /\ current_chunk_lines # <<>>

\* if current_size + line_size > self.chunk_size and current_chunk_lines
MustFlush(current_size, line_size, current_chunk_lines, size) ==
    current_size + line_size > size /\ current_chunk_lines # <<>>

\* the loop over data_lines, from line i on, and the final flush
RECURSIVE PartsLoop(_, _, _, _, _, _, _, _, _)
PartsLoop(section, source, size, header_text, data_lines, i, current_chunk_lines, current_size, chunks) ==
    IF i > Len(data_lines)
    THEN IF current_chunk_lines # <<>>
         THEN Append(chunks, TablePartChunk(section, source, header_text,
                                            current_chunk_lines, chunks))
         ELSE chunks
    ELSE LET line      == data_lines[i]
             line_size == Len(line) + 1
         IN  IF MustFlush(current_size, line_size, current_chunk_lines, size)
             THEN PartsLoop(section, source, size, header_text, data_lines, i + 1,
                            <<line>>, Len(header_text) + line_size,
                            Append(chunks, TablePartChunk(section, source, header_text,
                                                          current_chunk_lines, chunks)))
             ELSE PartsLoop(section, source, size, header_text, data_lines, i + 1,
                            Append(current_chunk_lines, line), current_size + line_size,
                            chunks)

SplitLargeTable(section, source, size) ==
    LET header_text == HeaderTextOf(HeaderLinesOf(section.content))
    IN  PartsLoop(section, source, size, header_text, DataLinesOf(section.content), 1,
                  <<>>, Len(header_text), <<>>)

(***************************************************************************)
(* _process_table_section                                                  *)
(***************************************************************************)
\* variant: the size comparison made strict
FitsStrictly(table_content, size) == Len(table_content) < size

\* if len(table_content) <= self.chunk_size
FitsInOneChunk(table_content, size) == Len(table_content) <= size

ProcessTableSectionOf(section, source, size) ==
    IF FitsInOneChunk(section.content, size)
    THEN <<Chunk(section.content, "table", section.table_id, section.table_title,
                 section.context, 0, source)>>
    ELSE SplitLargeTable(section, source, size)

(***************************************************************************)
(* base_splitter: RecursiveCharacterTextSplitter(chunk_size, chunk_overlap,*)
(* separators), with the library's defaults keep_separator=True,           *)
(* strip_whitespace=True, length_function=len.                             *)
(***************************************************************************)
\* variant: the list ends with the blank, the empty separator is left out
SeparatorsNoEmpty == << <<NL, NL>>, <<NL>>, <<".">>, <<"!">>, <<"?">>, <<",">>, <<" ">> >>

Separators == << <<NL, NL>>, <<NL>>, <<".">>, <<"!">>, <<"?">>, <<",">>, <<" ">>, <<>> >>

\* smallest index >= p where sub stands in s, 0 when there is none
RECURSIVE FindSub(_, _, _)
FindSub(s, sub, p) ==
    IF p + Len(sub) - 1 > Len(s) THEN 0
    ELSE IF LitAt(s, p, sub, FALSE) THEN p
    ELSE FindSub(s, sub, p + 1)

\* the first separator that is "" or occurs in text: its index in seps
RECURSIVE ChooseSeparator(_, _, _)
ChooseSeparator(text, seps, i) ==
    IF i >= Len(seps) THEN Len(seps)
    ELSE IF seps[i] = <<>> \/ FindSub(text, seps[i], 1) # 0 THEN i
    ELSE ChooseSeparator(text, seps, i + 1)

\* re.split(sep, text) for a literal, non-empty sep
RECURSIVE ReSplit(_, _)
ReSplit(text, sep) ==
    LET i == FindSub(text, sep, 1)
    IN  IF i = 0 THEN <<text>>
        ELSE <<SubSeq(text, 1, i - 1)>> \o ReSplit(From(text, i + Len(sep)), sep)

\* _split_text_with_regex(text, sep, keep_separator=True): each separator
\* stays at the head of the piece that follows it; empty pieces are dropped
SplitKeepSeparator(text, sep) ==
    LET raw == IF sep = <<>> THEN [i \in 1..Len(text) |-> <<text[i]>>]
               ELSE LET t == ReSplit(text, sep)
                    IN  [i \in 1..Len(t) |-> IF i = 1 THEN t[1] ELSE sep \o t[i]]
    IN  SelectSeq(raw, LAMBDA x : x # <<>>)

\* _join_docs with the separator "": the stripped text, <<>> for None
JoinDocs(docs) == Strip(Join(docs, <<>>))

\* the while loop of _merge_splits that drops leading pieces of current_doc
RECURSIVE DropForOverlap(_, _, _, _, _)
DropForOverlap(current_doc, total, len, size, overlap) ==
    IF total > overlap \/ (total + len > size /\ total > 0)
    THEN DropForOverlap(Tail(current_doc), total - Len(current_doc[1]), len, size, overlap)
    ELSE <<current_doc, total>>

\* _merge_splits(splits, ""), from piece i on
RECURSIVE MergeLoop(_, _, _, _, _, _, _)
MergeLoop(splits, i, current_doc, total, docs, size, overlap) ==
    IF i > Len(splits)
    THEN IF JoinDocs(current_doc) # <<>> THEN Append(docs, JoinDocs(current_doc)) ELSE docs
    ELSE LET d   == splits[i]
             len == Len(d)
         IN  IF total + len > size /\ Len(current_doc) > 0
             THEN LET doc  == JoinDocs(current_doc)
                      kept == DropForOverlap(current_doc, total, len, size, overlap)
                  IN  MergeLoop(splits, i + 1, Append(kept[1], d), kept[2] + len,
                                IF doc # <<>> THEN Append(docs, doc) ELSE docs,
                                size, overlap)
             ELSE MergeLoop(splits, i + 1, Append(current_doc, d), total + len,
                            docs, size, overlap)

MergeSplits(splits, size, overlap) == MergeLoop(splits, 1, <<>>, 0, <<>>, size, overlap)

\* _split_text(text, separators) and its loop over the pieces
RECURSIVE SplitText(_, _, _, _)
RECURSIVE SplitLoop(_, _, _, _, _, _, _)
SplitLoop(splits, i, good_splits, final_chunks, new_separators, size, overlap) ==
    IF i > Len(splits)
    THEN IF good_splits # <<>>
         THEN final_chunks \o MergeSplits(good_splits, size, overlap)
         ELSE final_chunks
    ELSE LET piece == splits[i]
         IN  IF Len(piece) < size
             THEN SplitLoop(splits, i + 1, Append(good_splits, piece), final_chunks,
                            new_separators, size, overlap)
             ELSE LET merged == IF good_splits # <<>>
                                THEN final_chunks \o MergeSplits(good_splits, size, overlap)
                                ELSE final_chunks
                      deeper == IF new_separators = <<>> THEN <<piece>>
                                ELSE SplitText(piece, new_separators, size, overlap)
                  IN  SplitLoop(splits, i + 1, <<>>, merged \o deeper,
                                new_separators, size, overlap)

SplitText(text, seps, size, overlap) ==
    LET k == ChooseSeparator(text, seps, 1)
        separator == seps[k]
        new_separators == IF separator = <<>> THEN <<>> ELSE SubSeq(seps, k + 1, Len(seps))
    IN  SplitLoop(SplitKeepSeparator(text, separator), 1, <<>>, <<>>,
                  new_separators, size, overlap)

(***************************************************************************)
(* _process_text_section                                                   *)
(***************************************************************************)
ProcessTextSectionOf(section, source, size, overlap) ==
    LET text_chunks == SplitText(section.content, Separators, size, overlap)
    IN  [i \in 1..Len(text_chunks) |->
            Chunk(text_chunks[i], "text", <<>>, <<>>, section.context,
                  IF Len(text_chunks) > 1 THEN i ELSE 0, source)]

(***************************************************************************)
(* cross_ref_pattern, compiled with re.IGNORECASE:                         *)
(*   (see Table ID|refer to Table ID|Table ID),  ID = [A-Z]?\d+\.\d+       *)
(***************************************************************************)
\* cross_ref_pattern at p: the index after the match, 0 when no match;
\* the alternatives are tried in the order written
CrossRefAt(s, p) ==
    IF LitAt(s, p, LitSee, TRUE) /\ TableIdEnd(s, p + Len(LitSee), TRUE) # 0
    THEN TableIdEnd(s, p + Len(LitSee), TRUE)
    ELSE IF LitAt(s, p, LitReferTo, TRUE) /\ TableIdEnd(s, p + Len(LitReferTo), TRUE) # 0
    THEN TableIdEnd(s, p + Len(LitReferTo), TRUE)
    ELSE TableIdEnd(s, p, TRUE)

\* variant: the scan resumes one character after the start of a match
NextScanPosOverlapping(p, e) == p + 1

\* where finditer resumes after a match that began at p and ended before e
NextScanPos(p, e) == e

\* cross_ref_pattern.finditer(content): match.group(1) of every match
RECURSIVE CrossRefMatches(_, _)
CrossRefMatches(s, p) ==
    IF p > Len(s) THEN <<>>
    ELSE LET e == CrossRefAt(s, p)
         IN  IF e = 0 THEN CrossRefMatches(s, p + 1)
             ELSE <<SubSeq(s, p, e - 1)>> \o CrossRefMatches(s, NextScanPos(p, e))

(***************************************************************************)
(* table_map: a dict, kept as the sequence of its items in insertion order *)
(***************************************************************************)
MapHas(m, key) == \E i \in 1..Len(m) : m[i].key = key

MapGet(m, key) == m[CHOOSE i \in 1..Len(m) : m[i].key = key].value

MapKeys(m) == {m[i].key : i \in 1..Len(m)}

\* m[key] = value
MapPut(m, key, value) ==
    IF MapHas(m, key)
    THEN [i \in 1..Len(m) |-> IF m[i].key = key THEN [key |-> key, value |-> value] ELSE m[i]]
    ELSE Append(m, [key |-> key, value |-> value])

\* variant: the dict of the previous call is kept
KeptTableMap(previous) == previous

\* table_map = {}: a new dict in every call, whatever an earlier call built
FreshTableMap(previous) == <<>>

(***************************************************************************)
(* _enhance_with_cross_references                                          *)
(***************************************************************************)
IsTableChunk(chunk) == chunk.chunk_type \in {"table", "table_part"}

\* variant: the id is stored in the place of the title
IndexedWithId(m, chunk) ==
    IF IsTableChunk(chunk) /\ chunk.table_id # <<>>
    THEN MapPut(m, chunk.table_id, chunk.table_id)
    ELSE m

\* first loop body: the table_map after looking at one chunk
IndexedWith(m, chunk) ==
    IF IsTableChunk(chunk) /\ chunk.table_id # <<>>
    THEN MapPut(m, chunk.table_id, chunk.table_title)
    ELSE m

\* variant: a mention is recorded without looking its id up in table_map
CrossRefUnchecked(ref_text, m) ==
    LET table_id == SearchTableId(ref_text, 1)
    IN  IF table_id # <<>>
        THEN <<[referenced_table |-> table_id,
                table_title      |-> IF MapHas(m, table_id) THEN MapGet(m, table_id)
                                     ELSE StrUnknownTable,
                reference_text   |-> ref_text]>>
        ELSE <<>>

\* second loop, inner body: the entries one match adds (none or one)
CrossRefFor(ref_text, m) ==
    LET table_id == SearchTableId(ref_text, 1)
    IN  IF table_id # <<>> /\ MapHas(m, table_id)
        THEN <<[referenced_table |-> table_id,
                table_title      |-> MapGet(m, table_id),
                reference_text   |-> ref_text]>>
        ELSE <<>>

\* variant: the entries are collected last match first
RECURSIVE CrossRefsFromReversed(_, _, _)
CrossRefsFromReversed(refs, i, m) ==
    IF i > Len(refs) THEN <<>>
    ELSE CrossRefsFromReversed(refs, i + 1, m) \o CrossRefFor(refs[i], m)

RECURSIVE CrossRefsFrom(_, _, _)
CrossRefsFrom(refs, i, m) ==
    IF i > Len(refs) THEN <<>>
    ELSE CrossRefFor(refs[i], m) \o CrossRefsFrom(refs, i + 1, m)

\* cross_refs of one chunk's content against table_map m
CrossRefsOf(content, m) == CrossRefsFrom(CrossRefMatches(content, 1), 1, m)

\* variant: the first loop is left after its first chunk
IndexLoopLeftEarly(k, chs) == k > 1 \/ k > Len(chs)

\* for chunk in chunks (first loop): exhausted
IndexLoopDone(k, chs) == k > Len(chs)

(***************************************************************************)
(* get_table_summary                                                       *)
(***************************************************************************)
\* variant: a new entry starts with one part already counted
NewSummaryEntryCounted(chunk) ==
    [title |-> chunk.table_title, parts |-> 1, total_content_length |-> 0]

\* tables[table_id] = {'title': ..., 'parts': 0, 'total_content_length': 0}
NewSummaryEntry(chunk) ==
    [title |-> chunk.table_title, parts |-> 0, total_content_length |-> 0]

\* loop body: the dict tables after looking at one chunk
SummaryAdd(tabs, chunk) ==
    IF IsTableChunk(chunk) /\ chunk.table_id # <<>>
    THEN LET opened == IF MapHas(tabs, chunk.table_id) THEN tabs
                       ELSE MapPut(tabs, chunk.table_id, NewSummaryEntry(chunk))
             entry  == MapGet(opened, chunk.table_id)
         IN  MapPut(opened, chunk.table_id,
                    [entry EXCEPT !.parts = @ + 1,
                                  !.total_content_length = @ + Len(chunk.page_content)])
    ELSE tabs

RECURSIVE SummaryLoop(_, _, _)
SummaryLoop(tabs, chs, i) ==
    IF i > Len(chs) THEN tabs
    ELSE SummaryLoop(SummaryAdd(tabs, chs[i]), chs, i + 1)

\* sum(1 for chunk in chunks if chunk.metadata.get('cross_references'))
CrossReferencesFound(chs) ==
    Cardinality({i \in 1..Len(chs) : chs[i].cross_references # <<>>})

GetTableSummaryOf(chs) ==
    LET tabs == SummaryLoop(<<>>, chs, 1)
    IN  [total_tables |-> Len(tabs),
         tables |-> tabs,
         cross_references_found |-> CrossReferencesFound(chs)]

(***************************************************************************)
(* __init__: the only check of the two sizes is the one the constructor of *)
(* RecursiveCharacterTextSplitter makes, raising ValueError when           *)
(* chunk_overlap > chunk_size                                              *)
(***************************************************************************)
ConstructorAccepts(size, overlap) == ~(overlap > size)

\* variant: all_chunks of the previous call is carried into the next
KeptChunks(previous) == previous

\* all_chunks = []: a new list in every call of split_documents
FreshChunks(previous) == <<>>

(***************************************************************************)
(* BankingDocumentLoader._extract_numerical_data                           *)
(* (src/src/document_processors/banking_document_loader.py).  A float is   *)
(* kept exactly, as <<m, e>> standing for m / 10^e with no trailing zero   *)
(* in m when e > 0, so 1250.50 and 1250.5 are one value.                   *)
(***************************************************************************)
\* \s* at p: the first index >= p that holds no white space
RECURSIVE SpacesEnd(_, _)
SpacesEnd(s, p) ==
    IF p <= Len(s) /\ IsSpace(s[p]) THEN SpacesEnd(s, p + 1) ELSE p

DigitValue(c) == CHOOSE d \in 0..9 : IntToStr(d) = <<c>>

\* int(digits)
RECURSIVE ToInt(_)
ToInt(digits) ==
    IF digits = <<>> THEN 0
    ELSE 10 * ToInt(SubSeq(digits, 1, Len(digits) - 1)) + DigitValue(digits[Len(digits)])

RECURSIVE Normalized(_, _)
Normalized(m, e) ==
    IF e > 0 /\ m % 10 = 0 THEN Normalized(m \div 10, e - 1) ELSE <<m, e>>

\* float(text) for text = digits, digits. or digits.digits
ToFloat(text) ==
    LET dot      == IndexOf(text, ".", 1)
        whole    == IF dot = 0 THEN text ELSE SubSeq(text, 1, dot - 1)
        fraction == IF dot = 0 THEN <<>> ELSE From(text, dot + 1)
    IN  Normalized(ToInt(whole \o fraction), Len(fraction))

\* amount.replace(',', '')
WithoutCommas(text) == SelectSeq(text, LAMBDA c : c # ",")

\* rate_pattern (\d+\.?\d*)\s*% at p: <<index after group 1, index after the
\* match>>, <<0, 0>> when it does not match
RateAt(s, p) ==
    LET d1 == DigitsEnd(s, p)
        d2 == IF d1 # 0 /\ d1 <= Len(s) /\ s[d1] = "." THEN d1 + 1 ELSE d1
        d3 == IF d1 # 0 /\ DigitsEnd(s, d2) # 0 THEN DigitsEnd(s, d2) ELSE d2
        sp == SpacesEnd(s, d3)
    IN  IF d1 # 0 /\ sp <= Len(s) /\ s[sp] = "%" THEN <<d3, sp + 1>>
        ELSE <<0, 0>>

\* (?:,\d{3})* at p, greedy: the index after the last group taken
RECURSIVE ThousandsEnd(_, _)
ThousandsEnd(s, p) ==
    IF p + 3 <= Len(s) /\ s[p] = "," /\ IsDigit(s[p + 1]) /\ IsDigit(s[p + 2]) /\ IsDigit(s[p + 3])
    THEN ThousandsEnd(s, p + 4)
    ELSE p

\* variant: \d+ in the place of \d{1,3}: the leading digits are all taken
LeadingDigitsAll(s, p) == DigitsEnd(s, p)

\* \d{1,3} at p, greedy: the index after at most three digits, 0 when s[p]
\* is no digit
LeadingDigits(s, p) ==
    IF DigitsEnd(s, p) = 0 THEN 0 ELSE Min(DigitsEnd(s, p), p + 3)

\* dollar_pattern \$(\d{1,3}(?:,\d{3})*(?:\.\d{2})?) at p: the index after
\* the match (group 1 begins at p + 1), 0 when it does not match
DollarAt(s, p) ==
    LET d1 == IF p <= Len(s) /\ s[p] = "$" THEN LeadingDigits(s, p + 1) ELSE 0
        t  == IF d1 = 0 THEN 0 ELSE ThousandsEnd(s, d1)
    IN  IF d1 = 0 THEN 0
        ELSE IF t + 2 <= Len(s) /\ s[t] = "." /\ IsDigit(s[t + 1]) /\ IsDigit(s[t + 2])
        THEN t + 3
        ELSE t

LitMonth == <<"m","o","n","t","h">>

LitYear == <<"y","e","a","r">>

\* variant: term_pattern without re.IGNORECASE
TermAtCaseSensitive(s, p) ==
    LET d1   == DigitsEnd(s, p)
        sp   == IF d1 = 0 THEN 0 ELSE SpacesEnd(s, d1)
        unit == IF d1 = 0 THEN 0
                ELSE IF LitAt(s, sp, LitMonth, FALSE) THEN sp + Len(LitMonth)
                ELSE IF LitAt(s, sp, LitYear, FALSE) THEN sp + Len(LitYear)
                ELSE 0
    IN  IF unit = 0 THEN <<0, 0>>
        ELSE IF unit <= Len(s) /\ s[unit] = "s" THEN <<d1, unit + 1>>
        ELSE <<d1, unit>>

\* term_pattern (\d+)\s*(?:month|year)s? under re.IGNORECASE at p: <<index
\* after group 1, index after the match>>, <<0, 0>> when it does not match
TermAt(s, p) ==
    LET d1   == DigitsEnd(s, p)
        sp   == IF d1 = 0 THEN 0 ELSE SpacesEnd(s, d1)
        unit == IF d1 = 0 THEN 0
                ELSE IF LitAt(s, sp, LitMonth, TRUE) THEN sp + Len(LitMonth)
                ELSE IF LitAt(s, sp, LitYear, TRUE) THEN sp + Len(LitYear)
                ELSE 0
    IN  IF unit = 0 THEN <<0, 0>>
        ELSE IF unit <= Len(s) /\ Lower(s[unit]) = "s" THEN <<d1, unit + 1>>
        ELSE <<d1, unit>>

\* re.findall(rate_pattern, content): group 1 of every match, from p on
RECURSIVE FindRates(_, _)
FindRates(s, p) ==
    IF p > Len(s) THEN <<>>
    ELSE IF RateAt(s, p)[2] = 0 THEN FindRates(s, p + 1)
    ELSE <<SubSeq(s, p, RateAt(s, p)[1] - 1)>> \o FindRates(s, RateAt(s, p)[2])

\* re.findall(dollar_pattern, content)
RECURSIVE FindAmounts(_, _)
FindAmounts(s, p) ==
    IF p > Len(s) THEN <<>>
    ELSE IF DollarAt(s, p) = 0 THEN FindAmounts(s, p + 1)
    ELSE <<SubSeq(s, p + 1, DollarAt(s, p) - 1)>> \o FindAmounts(s, DollarAt(s, p))

\* re.findall(term_pattern, content, re.IGNORECASE)
RECURSIVE FindTerms(_, _)
FindTerms(s, p) ==
    IF p > Len(s) THEN <<>>
    ELSE IF TermAt(s, p)[2] = 0 THEN FindTerms(s, p + 1)
    ELSE <<SubSeq(s, p, TermAt(s, p)[1] - 1)>> \o FindTerms(s, TermAt(s, p)[2])

\* variant: every key is set, found or not
NumericalDataAllKeys(content) ==
    LET rates   == FindRates(content, 1)
        amounts == FindAmounts(content, 1)
        terms   == FindTerms(content, 1)
    IN  << [key |-> "rates", value |-> [i \in 1..Len(rates) |-> ToFloat(rates[i])]],
           [key |-> "dollar_amounts",
            value |-> [i \in 1..Len(amounts) |-> ToFloat(WithoutCommas(amounts[i]))]],
           [key |-> "terms", value |-> [i \in 1..Len(terms) |-> ToInt(terms[i])]] >>

\* numerical_data: the dict, a key for every list that is not empty
NumericalDataOf(content) ==
    LET rates   == FindRates(content, 1)
        amounts == FindAmounts(content, 1)
        terms   == FindTerms(content, 1)
        d1 == IF rates # <<>>
              THEN MapPut(<<>>, "rates", [i \in 1..Len(rates) |-> ToFloat(rates[i])])
              ELSE <<>>
        d2 == IF amounts # <<>>
              THEN MapPut(d1, "dollar_amounts",
                          [i \in 1..Len(amounts) |-> ToFloat(WithoutCommas(amounts[i]))])
              ELSE d1
    IN  IF terms # <<>>
        THEN MapPut(d2, "terms", [i \in 1..Len(terms) |-> ToInt(terms[i])])
        ELSE d2

(***************************************************************************)
(* BankingDocumentLoader._enhance_banking_metadata                         *)
(***************************************************************************)
LoanTerms == <<<<"a","p","r">>, <<"l","o","a","n">>, <<"m","o","r","t","g","a","g","e">>, <<"r","a","t","e">>, <<"p","a","y","m","e","n","t">>>>

RateTerms == <<<<"%">>, <<"r","a","t","e">>, <<"a","p","r">>, <<"f","e","e">>, <<"c","o","s","t">>, <<"p","r","i","c","e">>>>

RegulatoryTerms == <<<<"c","o","m","p","l","i","a","n","c","e">>, <<"r","e","g","u","l","a","t","i","o","n">>, <<"f","d","i","c">>, <<"r","e","q","u","i","r","e","m","e","n","t">>>>

CalculationTerms == <<<<"a","m","o","r","t","i","z","a","t","i","o","n">>, <<"p","a","y","m","e","n","t">>, <<"p","r","i","n","c","i","p","a","l">>, <<"i","n","t","e","r","e","s","t">>>>

\* doc.page_content.lower()
LowerText(s) == [i \in 1..Len(s) |-> Lower(s[i])]

\* any(term in content for term in terms)
AnyTermIn(content, terms) == \E i \in 1..Len(terms) : Contains(content, terms[i])

\* ', '.join(content_types)
ContentTypesOf(chunk) ==
    LET content == LowerText(chunk.page_content)
    IN  Join((IF AnyTermIn(content, LoanTerms) THEN <<<<"l","o","a","n","_","p","r","o","d","u","c","t","s">>>> ELSE <<>>)
             \o (IF AnyTermIn(content, RateTerms) THEN <<<<"r","a","t","e","s","_","p","r","i","c","i","n","g">>>> ELSE <<>>)
             \o (IF AnyTermIn(content, RegulatoryTerms) THEN <<<<"r","e","g","u","l","a","t","o","r","y">>>> ELSE <<>>)
             \o (IF IsTableChunk(chunk) THEN <<<<"t","a","b","u","l","a","r","_","d","a","t","a">>>> ELSE <<>>)
             \o (IF AnyTermIn(content, CalculationTerms) THEN <<<<"c","a","l","c","u","l","a","t","i","o","n","s">>>> ELSE <<>>),
             <<",", " ">>)

\* variant: the lower-cased content is written back to the chunk
WithBankingMetadataLowered(chunk) ==
    [page_content     |-> LowerText(chunk.page_content),
     chunk_type       |-> chunk.chunk_type,
     table_id         |-> chunk.table_id,
     table_title      |-> chunk.table_title,
     context          |-> chunk.context,
     part             |-> chunk.part,
     cross_references |-> chunk.cross_references,
     source           |-> chunk.source,
     content_types    |-> ContentTypesOf(chunk),
     numerical_data   |-> NumericalDataOf(chunk.page_content)]

\* loop body: the chunk with metadata['content_types'] set and, when the
\* dict is not empty, metadata['numerical_data'] (<<>> stands for no key)
WithBankingMetadata(chunk) ==
    [page_content     |-> chunk.page_content,
     chunk_type       |-> chunk.chunk_type,
     table_id         |-> chunk.table_id,
     table_title      |-> chunk.table_title,
     context          |-> chunk.context,
     part             |-> chunk.part,
     cross_references |-> chunk.cross_references,
     source           |-> chunk.source,
     content_types    |-> ContentTypesOf(chunk),
     numerical_data   |-> NumericalDataOf(chunk.page_content)]

(***************************************************************************)
(* Inputs                                                                  *)
(***************************************************************************)
\* most rows in the body of a generated table
MaxRows == 4

\* most documents handed to split_documents in one call
MaxDocs == 2

TitleLine11 == <<"#","#","#"," ","T","a","b","l","e"," ","1",".","1",":"," ","A">>

RowSep == <<"|","-","-","-","|">>

RowA == <<"|","a","|">>

RowB == <<"|","b","b","b","b","|">>

RowCatalogue == {RowSep, RowA, RowB}

\* the lines, each closed by a line end
RECURSIVE LinesText(_)
LinesText(lines) ==
    IF lines = <<>> THEN <<>> ELSE lines[1] \o <<NL>> \o LinesText(Tail(lines))

\* one table: the title line and 1..MaxRows rows of the catalogue, in every
\* order (with a separator row, without one, with several)
TableTexts ==
    {LinesText(<<TitleLine11>> \o body) :
        body \in UNION {[1..n -> RowCatalogue] : n \in 1..MaxRows}}

Tab11 == <<"#","#","#"," ","T","a","b","l","e"," ","1",".","1",":"," ","A","\n","|","a","|","\n">>

Tab21 == <<"#","#","#"," ","T","a","b","l","e"," ","2",".","1",":"," ","B","\n","|","a","|","\n">>

\* documents that mention tables: after the table, before it, in lower
\* case, without the table, and with no table and no mention at all
DocPool ==
    { Tab11 \o <<"s","e","e"," ","T","a","b","l","e"," ","1",".","1">>,
      <<"S","e","e"," ","T","a","b","l","e"," ","2",".","1","\n">> \o Tab21,
      Tab11 \o <<"s","e","e"," ","t","a","b","l","e"," ","1",".","1">>,
      <<"r","e","f","e","r"," ","t","o"," ","T","a","b","l","e"," ","2",".","1",","," ","T","a","b","l","e"," ","9",".","9">>,
      <<"T","a","b","l","e"," ","1",".","1","\n">> \o Tab21 \o <<"r","e","f","e","r"," ","t","o"," ","T","a","b","l","e"," ","2",".","1">>,
      <<"o","k">> }

Tab11B == <<"#","#","#"," ","T","a","b","l","e"," ","1",".","1",":"," ","B","\n","|","a","|","\n">>

LongTokenLen == 26

LongToken == [i \in 1..LongTokenLen |-> "a"]

\* documents handed over alone: two tables under one id with different
\* titles; a title line with no row under it, followed by a table; a token
\* longer than every chunk size; a text with every separator; a table with
\* header, separator and data row followed by a sentence that mentions it
ExtraDocs ==
    { Tab11 \o Tab11B \o <<"s","e","e"," ","T","a","b","l","e"," ","1",".","1">>,
      TitleLine11 \o <<"\n","o","k","\n">> \o Tab21,
      LongToken,
      <<"a","a"," ","b","b","."," ","c","c",","," ","d","d","!"," ","e","e","?"," ","f","f","\n","g","g","\n","\n","h","h"," ","i","i"," ","j","j"," ","k","k">>,
      TitleLine11 \o <<"\n","|","h","|","\n","|","-","-","-","|","\n","|","a","|","\n","S","e","e"," ","T","a","b","l","e"," ","1",".","1"," ","o","k",".">>,
      <<"#","#","#"," ","T","a","b","l","e"," ","1",".","1",":"," ","A","\n","|","a","|","\n","#","#","#"," ","T","a","b","l","e"," ","2",".","1",":"," ","B","\n","|","a","|","\n","s","e","e"," ","T","a","b","l","e"," ","2",".","1",","," ","T","a","b","l","e"," ","1",".","1">>,
      <<"#","#","#"," ","T","a","b","l","e"," ","1",".","1",":"," ","A","\n","o","k","\n","|","a","|","\n">>,
      <<"#","#","#"," ","T","a","b","l","e"," ","1",".","1",":"," ","A","\n","|","-","-","-","|","\n","|","a","|","\n","|","x","-","-","-","y","|","\n","|","a","|","\n">>,
      <<"#","#","#"," ","T","a","b","l","e"," ","1",".","1",":","A","\n","|","a","|","\n">>,
      <<"#","#","#"," ","T","a","b","l","e"," ","1",".","1",":"," ","\n","|","a","|","\n">>,
      <<"#","#","#"," ","T","a","b","l","e"," ","1",".","1",":"," ","A","\n","|","a","|","\n","|","b","|">> }

\* <<chunk_size, chunk_overlap>> given to __init__
Configs == {<<21, 0>>, <<29, 4>>, <<34, 8>>, <<21, 21>>, <<21, 30>>}

Doc(text, i) == [page_content |-> text, metadata |-> [source |-> i]]

DocLists ==
    {<<Doc(t, 1)>> : t \in TableTexts}
    \cup UNION {{[i \in 1..n |-> Doc(f[i], i)] : f \in [1..n -> DocPool]} : n \in 1..MaxDocs}
    \cup {<<Doc(t, 1)>> : t \in ExtraDocs}

\* written amounts, terms and rates, each with the value it stands for
AmountTokens ==
    { [text |-> <<"$","1",",","2","5","0",".","5","0">>, value |-> <<12505, 1>>],
      [text |-> <<"$","1","2",",","0","0","0",".","0","0">>, value |-> <<12000, 0>>] }

TermTokens ==
    { [text |-> <<"1","2"," ","m","o","n","t","h","s">>, value |-> 12],
      [text |-> <<"3"," ","Y","e","a","r","s">>, value |-> 3],
      [text |-> <<"6","m","o","n","t","h">>, value |-> 6] }

RateTokens ==
    { [text |-> <<"5",".","2","5","%">>, value |-> <<525, 2>>],
      [text |-> <<"0",".","5"," ","%">>, value |-> <<5, 1>>] }

\* contents with one amount, one term and one rate, in two orders
NumericExamples ==
    { [content |-> a.text \o <<" ","f","o","r"," ">> \o t.text \o <<" ","a","t"," ">> \o r.text,
       rates |-> <<r.value>>, dollar_amounts |-> <<a.value>>, terms |-> <<t.value>>] :
         a \in AmountTokens, t \in TermTokens, r \in RateTokens }
    \cup
    { [content |-> r.text \o <<" ">> \o a.text \o <<" ">> \o t.text,
       rates |-> <<r.value>>, dollar_amounts |-> <<a.value>>, terms |-> <<t.value>>] :
         a \in AmountTokens, t \in TermTokens, r \in RateTokens }

\* other documents given to the loader: amounts written without separators,
\* no number at all, a table with a rate followed by a term and a mention,
\* words of every content type, numbers that are no rate, amount or term
LoaderDocs ==
    { <<"$","1","0","0","0","0"," ","o","r"," ","$","1","2","5","0",".","5","0">>,
      <<"o","k">>,
      <<"#","#","#"," ","T","a","b","l","e"," ","1",".","1",":"," ","A","\n","|","5"," ","%","|","\n","3"," ","y","e","a","r","s",","," ","s","e","e"," ","T","a","b","l","e"," ","1",".","1">>,
      <<"L","o","a","n"," ","A","P","R"," ","7",".","%"," ","f","e","e"," ","$","5",","," ","F","D","I","C"," ","i","n","t","e","r","e","s","t">>,
      <<"1","2"," ","d","a","y","s",","," ","3",".","5"," ","a","n","d"," ","1",",","0","0","0">> }

\* <<chunk_size, chunk_overlap>> of the loader's splitter
LoaderConfigs == {<<40, 8>>, <<21, 0>>}

LoaderDocLists ==
    {<<Doc(ex.content, 1)>> : ex \in NumericExamples}
    \cup {<<Doc(t, 1)>> : t \in LoaderDocs}

(***************************************************************************)
(* State                                                                   *)
(***************************************************************************)
VARIABLES
    chunk_size,     \* self.chunk_size
    chunk_overlap,  \* self.chunk_overlap
    documents,      \* the argument of split_documents
    all_chunks,     \* split_documents: all_chunks
    doc_idx,        \* split_documents: position of the for loop
    pc,             \* the statement that runs next
    tables,         \* _split_single_document: tables
    sections,       \* _split_single_document: sections
    sec_idx,        \* _split_single_document: position of the for loop
    chunks,         \* _split_single_document: chunks
    table_map,      \* _enhance_with_cross_references: table_map
    k,              \* _enhance_with_cross_references: position of the for loops
    summary,        \* what get_table_summary returned
    run,            \* the call of split_documents on this instance: first, second
    first_chunks    \* what the first call of split_documents returned

vars == <<chunk_size, chunk_overlap, documents, all_chunks, doc_idx, pc,
          tables, sections, sec_idx, chunks, table_map, k,
          summary, run, first_chunks>>

\* what the caller holds between the calls
caller == <<summary, run, first_chunks>>

config == <<chunk_size, chunk_overlap, documents>>

Init ==
    /\ \E c \in Configs :
          /\ ConstructorAccepts(c[1], c[2])
          /\ chunk_size = c[1]
          /\ chunk_overlap = c[2]
    /\ documents \in DocLists
    /\ all_chunks = <<>>
    /\ doc_idx = 1
    /\ pc = "extract"
    /\ tables = <<>>
    /\ sections = <<>>
    /\ sec_idx = 1
    /\ chunks = <<>>
    /\ table_map = <<>>
    /\ k = 1
    /\ summary = <<>>
    /\ run = 1
    /\ first_chunks = <<>>

\* the document _split_single_document is working on
CurText == documents[doc_idx].page_content

CurSource == documents[doc_idx].metadata

(***************************************************************************)
(* split_documents and _split_single_document, statement by statement      *)
(***************************************************************************)
\* tables = self._extract_tables(text)
ExtractTables ==
    /\ pc = "extract"
    /\ doc_idx <= Len(documents)
    /\ tables' = ExtractTablesOf(CurText)
    /\ pc' = "partition"
    /\ UNCHANGED <<config, caller, all_chunks, doc_idx, sections, sec_idx, chunks, table_map, k>>

\* sections = self._split_around_tables(text, tables); chunks = []
SplitAroundTables ==
    /\ pc = "partition"
    /\ sections' = SplitAroundTablesOf(CurText, tables)
    /\ chunks' = <<>>
    /\ sec_idx' = 1
    /\ pc' = "process"
    /\ UNCHANGED <<config, caller, all_chunks, doc_idx, tables, table_map, k>>

\* chunks.extend(self._process_table_section(section, metadata))
ProcessTableSection ==
    /\ pc = "process"
    /\ sec_idx <= Len(sections)
    /\ sections[sec_idx].type = "table"
    /\ chunks' = chunks \o ProcessTableSectionOf(sections[sec_idx], CurSource, chunk_size)
    /\ sec_idx' = sec_idx + 1
    /\ UNCHANGED <<config, caller, all_chunks, doc_idx, pc, tables, sections, table_map, k>>

\* chunks.extend(self._process_text_section(section, metadata))
ProcessTextSection ==
    /\ pc = "process"
    /\ sec_idx <= Len(sections)
    /\ sections[sec_idx].type # "table"
    /\ chunks' = chunks \o ProcessTextSectionOf(sections[sec_idx], CurSource,
                                                chunk_size, chunk_overlap)
    /\ sec_idx' = sec_idx + 1
    /\ UNCHANGED <<config, caller, all_chunks, doc_idx, pc, tables, sections, table_map, k>>

\* the loop over sections is exhausted: _enhance_with_cross_references is
\* entered and starts with table_map = {}
EnterEnhance ==
    /\ pc = "process"
    /\ sec_idx > Len(sections)
    /\ table_map' = FreshTableMap(table_map)
    /\ k' = 1
    /\ pc' = "xref_index"
    /\ UNCHANGED <<config, caller, all_chunks, doc_idx, tables, sections, sec_idx, chunks>>

\* first loop, one chunk
IndexChunk ==
    /\ pc = "xref_index"
    /\ ~IndexLoopDone(k, chunks)
    /\ table_map' = IndexedWith(table_map, chunks[k])
    /\ k' = k + 1
    /\ UNCHANGED <<config, caller, all_chunks, doc_idx, pc, tables, sections, sec_idx, chunks>>

\* first loop exhausted, the second begins
IndexDone ==
    /\ pc = "xref_index"
    /\ IndexLoopDone(k, chunks)
    /\ k' = 1
    /\ pc' = "xref_scan"
    /\ UNCHANGED <<config, caller, all_chunks, doc_idx, tables, sections, sec_idx, chunks, table_map>>

\* second loop, one chunk
ScanChunk ==
    /\ pc = "xref_scan"
    /\ k <= Len(chunks)
    /\ chunks' = [chunks EXCEPT ![k].cross_references =
                     CrossRefsOf(chunks[k].page_content, table_map)]
    /\ k' = k + 1
    /\ UNCHANGED <<config, caller, all_chunks, doc_idx, pc, tables, sections, sec_idx, table_map>>

\* second loop exhausted: return chunks; all_chunks.extend(chunks); the
\* locals of _split_single_document are gone
ReturnChunks ==
    /\ pc = "xref_scan"
    /\ k > Len(chunks)
    /\ all_chunks' = all_chunks \o chunks
    /\ doc_idx' = doc_idx + 1
    /\ tables' = <<>>
    /\ sections' = <<>>
    /\ sec_idx' = 1
    /\ chunks' = <<>>
    /\ k' = 1
    /\ pc' = "extract"
    /\ UNCHANGED <<config, caller, table_map>>

\* the loop over documents is exhausted: return all_chunks
ReturnAll ==
    /\ pc = "extract"
    /\ doc_idx > Len(documents)
    /\ pc' = "done"
    /\ UNCHANGED <<config, caller, all_chunks, doc_idx, tables, sections, sec_idx, chunks, table_map, k>>

\* table_summary = self.table_splitter.get_table_summary(documents), on the
\* chunks split_documents returned
GetTableSummary ==
    /\ pc \in {"done", "loaded"}
    /\ summary' = GetTableSummaryOf(all_chunks)
    /\ pc' = "summarized"
    /\ UNCHANGED <<config, run, first_chunks, all_chunks, doc_idx, tables, sections,
                   sec_idx, chunks, table_map, k>>

\* split_documents is called once more on the same instance with the same
\* documents; what the instance holds (table_map here) is what the first
\* call left
SplitAgain ==
    /\ pc = "summarized"
    /\ run = 1
    /\ first_chunks' = all_chunks
    /\ run' = 2
    /\ all_chunks' = FreshChunks(all_chunks)
    /\ doc_idx' = 1
    /\ pc' = "extract"
    /\ UNCHANGED <<config, summary, tables, sections, sec_idx, chunks, table_map, k>>

\* self._enhance_banking_metadata(chunked_documents), after split_documents
\* returned: every chunk gets its content_types and numerical_data
EnhanceBankingMetadata ==
    /\ pc = "done"
    /\ all_chunks' = [i \in 1..Len(all_chunks) |-> WithBankingMetadata(all_chunks[i])]
    /\ pc' = "loaded"
    /\ UNCHANGED <<config, caller, doc_idx, tables, sections, sec_idx, chunks, table_map, k>>

Next ==
    \/ ExtractTables
    \/ SplitAroundTables
    \/ ProcessTableSection
    \/ ProcessTextSection
    \/ EnterEnhance
    \/ IndexChunk
    \/ IndexDone
    \/ ScanChunk
    \/ ReturnChunks
    \/ ReturnAll
    \/ GetTableSummary

Spec == Init /\ [][Next]_vars

\* the same, with a second call of split_documents after the first
NextTwice == Next \/ SplitAgain

SpecTwice == Init /\ [][NextTwice]_vars

\* the loader: its splitter, a document, split_documents and then
\* _enhance_banking_metadata
InitLoader ==
    /\ \E c \in LoaderConfigs :
          /\ ConstructorAccepts(c[1], c[2])
          /\ chunk_size = c[1]
          /\ chunk_overlap = c[2]
    /\ documents \in LoaderDocLists
    /\ all_chunks = <<>>
    /\ doc_idx = 1
    /\ pc = "extract"
    /\ tables = <<>>
    /\ sections = <<>>
    /\ sec_idx = 1
    /\ chunks = <<>>
    /\ table_map = <<>>
    /\ k = 1
    /\ summary = <<>>
    /\ run = 1
    /\ first_chunks = <<>>

NextLoader == Next \/ EnhanceBankingMetadata

SpecLoader == InitLoader /\ [][NextLoader]_vars

(***************************************************************************)
(* Properties of the table chunker                                         *)
(***************************************************************************)
\* the step that processes the table section at sec_idx
TableStep ==
    /\ pc = "process"
    /\ sec_idx <= Len(sections)
    /\ sections[sec_idx].type = "table"
    /\ sec_idx' = sec_idx + 1

\* the chunks such a step appends
Emitted == SubSeq(chunks', Len(chunks) + 1, Len(chunks'))

\* a separator row as the specification words it: pipe-prefixed and made
\* only of dash and pipe characters
IsSeparatorRow(line) ==
    /\ StartsWith(line, <<"|">>)
    /\ \E i \in 1..Len(line) : line[i] = "-"
    /\ \A i \in 1..Len(line) : line[i] \in {"-", "|"}

\* index of the first separator row among lines, 0 when there is none
FirstSeparator(lines) ==
    IF \E i \in 1..Len(lines) : IsSeparatorRow(lines[i])
    THEN CHOOSE i \in 1..Len(lines) :
            IsSeparatorRow(lines[i]) /\ \A j \in 1..(i - 1) : ~IsSeparatorRow(lines[j])
    ELSE 0

\* the header block of a table: its lines up to and including the first
\* separator row, each closed by a line end
HeaderBlock(content) ==
    LET lines == SplitOn(content, NL)
    IN  LinesText(SubSeq(lines, 1, FirstSeparator(lines)))

\* the rows of a table that follow its header block (all rows after the
\* title line when there is no separator row), empty lines left out
TableDataRows(content) ==
    LET lines == SplitOn(content, NL)
        first == IF FirstSeparator(lines) = 0 THEN 2 ELSE FirstSeparator(lines) + 1
    IN  SelectSeq(SubSeq(lines, first, Len(lines)), LAMBDA l : l # <<>>)

\* the lines a part holds after the header text the splitter put before them
PartLines(part, content) ==
    SplitOn(From(part.page_content, Len(HeaderTextOf(HeaderLinesOf(content))) + 2), NL)

RECURSIVE Flatten(_)
Flatten(seqs) == IF seqs = <<>> THEN <<>> ELSE seqs[1] \o Flatten(Tail(seqs))

\* the data lines of a run of parts, in part order
LinesOfParts(parts, content) ==
    Flatten([i \in 1..Len(parts) |-> PartLines(parts[i], content)])

NonEmpty(lines) == SelectSeq(lines, LAMBDA l : l # <<>>)

\* C1: a table section no longer than chunk_size yields exactly one chunk,
\* of type table, with the whole table content and the section's table_id
\* and table_title; table_part chunks appear only for a longer table.
C1_SmallTableOneChunk ==
    [][TableStep =>
        LET sec == sections[sec_idx]
        IN  /\ Len(sec.content) <= chunk_size =>
                 /\ Len(Emitted) = 1
                 /\ Emitted[1].chunk_type = "table"
                 /\ Emitted[1].page_content = sec.content
                 /\ Emitted[1].table_id = sec.table_id
                 /\ Emitted[1].table_title = sec.table_title
            /\ (\E i \in 1..Len(Emitted) : Emitted[i].chunk_type = "table_part")
                 => Len(sec.content) > chunk_size]_vars

\* C1 witness: a table exactly chunk_size long was kept whole
C1_Witness ==
    /\ pc = "process"
    /\ \E i \in 1..(sec_idx - 1) :
          /\ sections[i].type = "table"
          /\ Len(sections[i].content) = chunk_size
          /\ \E j \in 1..Len(chunks) :
                /\ chunks[j].chunk_type = "table"
                /\ chunks[j].page_content = sections[i].content

\* C2 as stated: every table_part chunk is at most chunk_size long.
C2_Original ==
    [][TableStep =>
        \A i \in 1..Len(Emitted) :
            Emitted[i].chunk_type = "table_part"
                => Len(Emitted[i].page_content) <= chunk_size]_vars

\* C2 amended: every table_part chunk that holds two or more data lines is
\* at most chunk_size long; only a part holding a single data line may be
\* longer (header and that line together exceed the budget).
C2_Amended ==
    [][TableStep =>
        \A i \in 1..Len(Emitted) :
            Emitted[i].chunk_type = "table_part" =>
                \/ Len(Emitted[i].page_content) <= chunk_size
                \/ Len(PartLines(Emitted[i], sections[sec_idx].content)) = 1]_vars

\* C2 witness: a part of several data lines that fills the budget exactly,
\* beside a part of one line that exceeds it
C2_Witness ==
    /\ pc = "process"
    /\ sec_idx = 2
    /\ sections[1].type = "table"
    /\ \E i \in 1..Len(chunks) :
          /\ chunks[i].chunk_type = "table_part"
          /\ Len(PartLines(chunks[i], sections[1].content)) >= 2
          /\ Len(chunks[i].page_content) = chunk_size
    /\ \E i \in 1..Len(chunks) :
          /\ chunks[i].chunk_type = "table_part"
          /\ Len(PartLines(chunks[i], sections[1].content)) = 1
          /\ Len(chunks[i].page_content) > chunk_size

C4_NothingLost ==
    [][TableStep =>
        LET sec == sections[sec_idx]
        IN  Len(sec.content) > chunk_size =>
              /\ Len(Emitted) >= 1
              /\ NonEmpty(LinesOfParts(Emitted, sec.content)) = TableDataRows(sec.content)]_vars

\* C5: the parts of a row-split table are numbered 1..n in the order they
\* are emitted, and their data lines, taken in that order, are the data
\* lines of the table in source order.
C5_PartsNumbered ==
    [][TableStep =>
        LET sec == sections[sec_idx]
        IN  Len(sec.content) > chunk_size =>
              /\ \A i \in 1..Len(Emitted) :
                    /\ Emitted[i].chunk_type = "table_part"
                    /\ Emitted[i].context =
                          sec.context \o LitPartOpen \o IntToStr(i) \o <<")">>
              /\ LinesOfParts(Emitted, sec.content) = DataLinesOf(sec.content)]_vars

\* C5 witness: a table was split into parts labelled Part 1, Part 2, Part 3
C5_Witness ==
    /\ pc = "process"
    /\ sec_idx = 2
    /\ Len(chunks) = 3
    /\ \A i \in 1..3 :
          /\ chunks[i].chunk_type = "table_part"
          /\ chunks[i].context = sections[1].context \o LitPartOpen \o IntToStr(i) \o <<")">>
    /\ \A i \in 1..3 : NonEmpty(PartLines(chunks[i], sections[1].content)) # <<>>

(***************************************************************************)
(* _split_single_document as a function of one document                    *)
(***************************************************************************)
RECURSIVE ProcessSectionsFrom(_, _, _, _, _)
ProcessSectionsFrom(secs, i, source, size, overlap) ==
    IF i > Len(secs) THEN <<>>
    ELSE (IF secs[i].type = "table"
          THEN ProcessTableSectionOf(secs[i], source, size)
          ELSE ProcessTextSectionOf(secs[i], source, size, overlap))
         \o ProcessSectionsFrom(secs, i + 1, source, size, overlap)

\* the first loop of _enhance_with_cross_references over chs[i..]
RECURSIVE TableMapFrom(_, _, _)
TableMapFrom(chs, i, m) ==
    IF i > Len(chs) THEN m ELSE TableMapFrom(chs, i + 1, IndexedWith(m, chs[i]))

EnhanceWithCrossReferencesOf(chs) ==
    LET m == TableMapFrom(chs, 1, <<>>)
    IN  [i \in 1..Len(chs) |->
            [chs[i] EXCEPT !.cross_references = CrossRefsOf(chs[i].page_content, m)]]

SplitSingleDocumentOf(document, size, overlap) ==
    LET text == document.page_content
        secs == SplitAroundTablesOf(text, ExtractTablesOf(text))
    IN  EnhanceWithCrossReferencesOf(
            ProcessSectionsFrom(secs, 1, document.metadata, size, overlap))

(***************************************************************************)
(* Properties of the cross-reference pass                                  *)
(***************************************************************************)
\* the chunks of the current document whose content has been scanned
Scanned ==
    IF pc = "xref_scan" THEN {chunks[i] : i \in 1..(k - 1)} ELSE {}

Refs(c) == {c.cross_references[i] : i \in 1..Len(c.cross_references)}

\* the table ids carried by the table chunks of a chunk sequence
TableIdsOf(chs) ==
    {chs[i].table_id : i \in {j \in 1..Len(chs) : IsTableChunk(chs[j])}}

\* the identifier a mention ends with: the text after its last blank
IdOfMention(ref_text) ==
    LET blanks == {i \in 1..Len(ref_text) : ref_text[i] = " "}
        last   == CHOOSE i \in blanks : \A j \in blanks : j <= i
    IN  From(ref_text, last + 1)

\* the positions of content where "Table <id>" stands as written (capital
\* T) with an id of ids
MentionPositions(content, ids) ==
    {p \in 1..Len(content) :
        /\ TableIdEnd(content, p, FALSE) # 0
        /\ SubSeq(content, p + Len(LitTable), TableIdEnd(content, p, FALSE) - 1) \in ids}

\* those of them that directly follow "see " or "refer to " (any case)
LongMentionPositions(content, ids) ==
    {p \in MentionPositions(content, ids) :
        \/ LitAt(content, p - Len(LitSee), LitSee, TRUE)
        \/ LitAt(content, p - Len(LitReferTo), LitReferTo, TRUE)}

IsLongRef(r) ==
    \/ LitAt(r.reference_text, 1, LitSee, TRUE)
    \/ LitAt(r.reference_text, 1, LitReferTo, TRUE)

StrSeeTable11 == LitSee \o LitTable \o <<"1", ".", "1">>

\* C6: every cross-reference recorded on a chunk names the table_id of a
\* table chunk of the same document and carries the title table_map holds
\* for it; a mention of any other id is not recorded.
C6_ReferencesResolve ==
    /\ \A c \in Scanned : \A r \in Refs(c) :
          /\ r.referenced_table \in TableIdsOf(chunks)
          /\ MapHas(table_map, r.referenced_table)
          /\ r.table_title = MapGet(table_map, r.referenced_table)
    /\ \A i \in 1..Len(all_chunks) : \A r \in Refs(all_chunks[i]) :
          \E j \in 1..Len(all_chunks) :
             /\ IsTableChunk(all_chunks[j])
             /\ all_chunks[j].source = all_chunks[i].source
             /\ all_chunks[j].table_id = r.referenced_table
             /\ all_chunks[j].table_title = r.table_title

\* C6 witness: in one document a mention was resolved on one chunk, and on
\* another chunk a mention of an id that is no table of the document was
\* dropped
C6_Witness ==
    /\ \E c \in Scanned : \E r \in Refs(c) : ~IsTableChunk(c)
    /\ \E c \in Scanned :
          /\ c.cross_references = <<>>
          /\ \E i \in 1..Len(CrossRefMatches(c.page_content, 1)) :
                /\ HasTableId(CrossRefMatches(c.page_content, 1)[i])
                /\ ~MapHas(table_map, IdOfMention(CrossRefMatches(c.page_content, 1)[i]))

\* C7 as stated: a mention written in any letter case whose id is a key of
\* table_map gives the chunk a cross-reference to that id.
C7_AnyCaseResolves ==
    \A c \in Scanned :
        \A i \in 1..Len(CrossRefMatches(c.page_content, 1)) :
            LET id == IdOfMention(CrossRefMatches(c.page_content, 1)[i])
            IN  MapHas(table_map, id) => \E r \in Refs(c) : r.referenced_table = id

\* C8: each mention of a table of the document gives exactly one entry: a
\* chunk has as many cross-references as its content has mentions, and as
\* many entries whose reference_text begins with "see " or "refer to " as it
\* has mentions that follow these words.
C8_OneEntryPerMention ==
    \A c \in Scanned :
        /\ Len(c.cross_references)
              = Cardinality(MentionPositions(c.page_content, MapKeys(table_map)))
        /\ Cardinality({i \in 1..Len(c.cross_references) : IsLongRef(c.cross_references[i])})
              = Cardinality(LongMentionPositions(c.page_content, MapKeys(table_map)))

\* C8 witness: a chunk whose only mention is "see Table 1.1" carries one
\* entry, with that text as reference_text
C8_Witness ==
    \E c \in Scanned :
        /\ c.chunk_type = "text"
        /\ c.page_content = StrSeeTable11
        /\ Len(c.cross_references) = 1
        /\ c.cross_references[1].reference_text = StrSeeTable11

\* C9: while chunks are scanned for mentions, table_map holds the id of
\* every table chunk of the document, and a scanned chunk has a
\* cross-reference for each mention of a table that occurs anywhere in the
\* chunk sequence, before or after it.
C9_IndexBeforeScan ==
    pc = "xref_scan" =>
        /\ MapKeys(table_map) = TableIdsOf(chunks)
        /\ \A c \in Scanned :
              \A p \in MentionPositions(c.page_content, TableIdsOf(chunks)) :
                 \E r \in Refs(c) :
                    r.referenced_table =
                       SubSeq(c.page_content, p + Len(LitTable),
                              TableIdEnd(c.page_content, p, FALSE) - 1)

\* C9 witness: a text chunk that precedes the table chunk it mentions has
\* the cross-reference
C9_Witness ==
    /\ pc = "xref_scan"
    /\ \E i \in 1..(k - 1) : \E j \in (i + 1)..Len(chunks) :
          /\ chunks[i].chunk_type = "text"
          /\ IsTableChunk(chunks[j])
          /\ \A h \in 1..i : ~IsTableChunk(chunks[h])
          /\ \E r \in Refs(chunks[i]) : r.referenced_table = chunks[j].table_id

(***************************************************************************)
(* Properties of split_documents                                           *)
(***************************************************************************)
\* the chunk lists of documents 1..n, each split on its own, concatenated
RECURSIVE AloneUpTo(_)
AloneUpTo(n) ==
    IF n = 0 THEN <<>>
    ELSE AloneUpTo(n - 1) \o SplitSingleDocumentOf(documents[n], chunk_size, chunk_overlap)

\* C10: the chunks of each document are those it yields when split alone,
\* all_chunks is these lists concatenated in input order, and no
\* cross-reference names a table that is not in the chunk's own document.
C10_DocumentsIndependent ==
    /\ pc = "extract" => all_chunks = AloneUpTo(doc_idx - 1)
    /\ pc = "done" => all_chunks = AloneUpTo(Len(documents))
    /\ \A i \in 1..Len(all_chunks) : \A r \in Refs(all_chunks[i]) :
          \E t \in 1..Len(ExtractTablesOf(documents[all_chunks[i].source.source].page_content)) :
             ExtractTablesOf(documents[all_chunks[i].source.source].page_content)[t].id
                = r.referenced_table

\* C10 witness: two documents were split; the first mentions a table that
\* only the second holds, and its chunks carry no cross-reference
C10_Witness ==
    /\ pc = "done"
    /\ Len(documents) = 2
    /\ ExtractTablesOf(documents[1].page_content) = <<>>
    /\ \E t \in 1..Len(ExtractTablesOf(documents[2].page_content)) :
          MentionPositions(documents[1].page_content,
                           {ExtractTablesOf(documents[2].page_content)[t].id}) # {}
    /\ \A i \in 1..Len(all_chunks) :
          all_chunks[i].source.source = 1 => all_chunks[i].cross_references = <<>>
    /\ \E i \in 1..Len(all_chunks) : all_chunks[i].source.source = 2

(***************************************************************************)
(* Properties of the index of tables                                       *)
(***************************************************************************)
\* the table chunks of a chunk sequence that carry table id id: their positions
TableChunksOf(chs, id) ==
    {i \in 1..Len(chs) : IsTableChunk(chs[i]) /\ chs[i].table_id = id}

\* the title of the first table chunk that carries id
FirstTitleOf(chs, id) ==
    chs[CHOOSE i \in TableChunksOf(chs, id) : \A j \in TableChunksOf(chs, id) : i <= j].table_title

\* C11: when several table chunks of a document share a table_id, the title
\* table_map holds for that id, and the title of every cross-reference
\* resolved to it, is the title of the first such chunk.
C11_FirstTitleWins ==
    /\ pc = "xref_scan" =>
          \A id \in MapKeys(table_map) : MapGet(table_map, id) = FirstTitleOf(chunks, id)
    /\ \A c \in Scanned : \A r \in Refs(c) :
          r.table_title = FirstTitleOf(chunks, r.referenced_table)

\* C12: the table summary has exactly one key for every table_id carried by
\* a table or table_part chunk and no other key, total_tables is the number
\* of keys, and the parts of a key count the table chunks that carry its id;
\* table_map, once built, has the same keys for the chunks of its document.
C12_IndexComplete ==
    /\ pc = "summarized" =>
          /\ MapKeys(summary.tables) = TableIdsOf(all_chunks)
          /\ Len(summary.tables) = Cardinality(TableIdsOf(all_chunks))
          /\ summary.total_tables = Cardinality(TableIdsOf(all_chunks))
          /\ \A id \in TableIdsOf(all_chunks) :
                MapGet(summary.tables, id).parts = Cardinality(TableChunksOf(all_chunks, id))
    /\ pc = "xref_scan" =>
          /\ MapKeys(table_map) = TableIdsOf(chunks)
          /\ Len(table_map) = Cardinality(TableIdsOf(chunks))

\* C12 witness: a summary was made of chunks among which two table chunks
\* share an id and a third chunk is no table chunk
C12_Witness ==
    /\ pc = "summarized"
    /\ summary.total_tables = 1
    /\ \E id \in TableIdsOf(all_chunks) :
          /\ Cardinality(TableChunksOf(all_chunks, id)) >= 2
          /\ MapGet(summary.tables, id).parts >= 2
    /\ \E i \in 1..Len(all_chunks) : ~IsTableChunk(all_chunks[i])

(***************************************************************************)
(* Properties of the partition into sections                               *)
(***************************************************************************)
\* the first position >= p of s that holds no white space (Len(s) + 1 when
\* only white space is left)
RECURSIVE SkipSpace(_, _)
SkipSpace(s, p) ==
    IF p <= Len(s) /\ IsSpace(s[p]) THEN SkipSpace(s, p + 1) ELSE p

\* reading text from position p: white space is passed over, then the
\* content of section i must stand there, then section i + 1, and after the
\* last section only white space is left
RECURSIVE ReadsAs(_, _, _, _)
ReadsAs(text, secs, i, p) ==
    IF i > Len(secs) THEN SkipSpace(text, p) = Len(text) + 1
    ELSE LET q == SkipSpace(text, p)
         IN  /\ secs[i].content # <<>>
             /\ ~IsSpace(secs[i].content[1])
             /\ LitAt(text, q, secs[i].content, FALSE)
             /\ ReadsAs(text, secs, i + 1, q + Len(secs[i].content))

RECURSIVE TotalLength(_)
TotalLength(secs) ==
    IF secs = <<>> THEN 0 ELSE Len(secs[1].content) + TotalLength(Tail(secs))

\* C13: the contents of the sections, in order, are the text of the document
\* with nothing but white space left out between them, before the first and
\* after the last: no other character is dropped and none is in two sections.
C13_SectionsRoundTrip ==
    pc = "process" => ReadsAs(CurText, sections, 1, 1)

\* C13 witness: a text was cut into text, table and text, and white space
\* at the edge of a text section was trimmed away
C13_Witness ==
    /\ pc = "process"
    /\ Len(sections) = 3
    /\ sections[1].type = "text"
    /\ sections[2].type = "table"
    /\ sections[3].type = "text"
    /\ TotalLength(sections) < Len(CurText)

\* the boundaries as the detector returned them: each has start < end, and
\* each ends no later than the next starts
BoundariesOrdered(tabs) ==
    /\ \A i \in 1..Len(tabs) : tabs[i].start < tabs[i].end
    /\ \A i \in 1..(Len(tabs) - 1) : tabs[i].end <= tabs[i + 1].start

\* the number of table sections among the first i sections
RECURSIVE TablesAmong(_, _)
TablesAmong(secs, i) ==
    IF i = 0 THEN 0
    ELSE TablesAmong(secs, i - 1) + (IF secs[i].type = "table" THEN 1 ELSE 0)

\* the sections follow the text: the j-th table section is the text between
\* the j-th boundary's offsets, a text section lies in the gap between the
\* boundaries around it, and no gap holds two text sections
InSourceOrder(text, secs, tabs) ==
    /\ TablesAmong(secs, Len(secs)) = Len(tabs)
    /\ \A i \in 1..Len(secs) :
          LET j == TablesAmong(secs, i)
          IN  IF secs[i].type = "table"
              THEN secs[i].content = Slice(text, tabs[j].start, tabs[j].end)
              ELSE /\ Contains(Slice(text,
                                     IF j = 0 THEN 0 ELSE tabs[j].end,
                                     IF j = Len(tabs) THEN Len(text) ELSE tabs[j + 1].start),
                               secs[i].content)
                   /\ i > 1 => secs[i - 1].type = "table"

\* chunk e was made from section sec
MadeFrom(e, sec) ==
    IF sec.type = "table"
    THEN IsTableChunk(e) /\ e.table_id = sec.table_id /\ StartsWith(e.context, sec.context)
    ELSE e.chunk_type = "text" /\ e.context = sec.context
         /\ Contains(sec.content, e.page_content)

\* a chunk with its cross-references set aside
Bare(c) == [c EXCEPT !.cross_references = <<>>]

\* C14: the boundaries have start < end, are sorted and do not overlap; the
\* sections follow the source (gap, table, ..., trailing text); the chunks
\* of a section are appended after those of every earlier section, and the
\* annotation pass and the return keep that order.
C14_SourceOrderKept ==
    /\ [](pc \in {"partition", "process"} => BoundariesOrdered(tables))
    /\ [](pc = "process" => InSourceOrder(CurText, sections, tables))
    /\ [][/\ (pc = "process" /\ sec_idx' = sec_idx + 1) =>
               /\ SubSeq(chunks', 1, Len(chunks)) = chunks
               /\ \A i \in (Len(chunks) + 1)..Len(chunks') :
                     MadeFrom(chunks'[i], sections[sec_idx])
          /\ (pc = "xref_scan" /\ pc' = "xref_scan") =>
               /\ Len(chunks') = Len(chunks)
               /\ \A i \in 1..Len(chunks) : Bare(chunks'[i]) = Bare(chunks[i])
          /\ (pc = "xref_scan" /\ pc' = "extract") =>
               all_chunks' = all_chunks \o chunks]_vars

\* C14 witness: a document with two tables and a text after them has had
\* all three of its sections turned into chunks
C14_Witness ==
    /\ pc = "process"
    /\ Len(tables) = 2
    /\ Len(sections) = 3
    /\ sec_idx = 4
    /\ Len(chunks) >= 3

\* C15: a title line that has no pipe row directly under it starts no
\* boundary: in every detected table the line after the title line is a pipe
\* row, so the table begins at its own title line and carries its own id.
C15_TitleNeedsRows ==
    pc \in {"partition", "process"} =>
        \A t \in 1..Len(tables) :
            LET content == tables[t].content
                n       == IndexOf(content, NL, 1)
            IN  /\ n # 0
                /\ n < Len(content)
                /\ content[n + 1] = "|"

(***************************************************************************)
(* Properties of the text chunker                                          *)
(***************************************************************************)
\* the step that processes the text section at sec_idx
TextStep ==
    /\ pc = "process"
    /\ sec_idx <= Len(sections)
    /\ sections[sec_idx].type # "table"
    /\ sec_idx' = sec_idx + 1

\* the chunks from the i-th on lie on content one after the other: each
\* begins no later than the first character that is not white space after
\* position reached, where the one before it ended, and ends beyond it; after
\* the last only white space is left
RECURSIVE CoversFrom(_, _, _, _)
CoversFrom(content, chs, i, reached) ==
    IF i > Len(chs) THEN SkipSpace(content, reached + 1) = Len(content) + 1
    ELSE \E q \in 1..SkipSpace(content, reached + 1) :
            /\ LitAt(content, q, chs[i].page_content, FALSE)
            /\ q + Len(chs[i].page_content) - 1 > reached
            /\ CoversFrom(content, chs, i + 1, q + Len(chs[i].page_content) - 1)

\* C16: every text chunk is no longer than chunk_size and is a piece of the
\* section's text as it stands there; the chunks together leave out
\* nothing but white space, so no token is cut short.  (With the empty
\* separator last in the list no token is indivisible.)
C16_TextChunksFit ==
    [][TextStep =>
        /\ \A i \in 1..Len(Emitted) : Len(Emitted[i].page_content) <= chunk_size
        /\ CoversFrom(sections[sec_idx].content, Emitted, 1, 0)]_vars

\* C16 witness: a text section that holds no separator but the empty one and
\* is longer than chunk_size was cut into several chunks
C16_Witness ==
    /\ pc = "process"
    /\ sec_idx = 2
    /\ sections[1].type = "text"
    /\ Len(sections[1].content) > chunk_size
    /\ \A i \in 1..(Len(Separators) - 1) : FindSub(sections[1].content, Separators[i], 1) = 0
    /\ Len(chunks) >= 2

(***************************************************************************)
(* Properties of the configuration                                         *)
(***************************************************************************)
\* C17: a splitter whose chunk_overlap is chunk_size or more is refused at
\* construction, so a splitter that has split its documents and returned
\* their chunks has chunk_overlap < chunk_size.
C17_OverlapRejected == pc = "done" => chunk_overlap < chunk_size

(***************************************************************************)
(* Properties of repeated calls                                            *)
(***************************************************************************)
\* C18: a second call of split_documents on the same instance with the same
\* documents builds the chunk sequence of the first call again, chunk by
\* chunk, whatever the first call left behind in the instance.
C18_SecondRunSame ==
    run = 2 =>
        /\ pc = "extract" =>
              /\ Len(all_chunks) <= Len(first_chunks)
              /\ all_chunks = SubSeq(first_chunks, 1, Len(all_chunks))
        /\ pc = "done" => all_chunks = first_chunks

\* C18 witness: the second call has returned; the documents gave table
\* chunks and other chunks, and cross-references were recorded
C18_Witness ==
    /\ run = 2
    /\ pc = "done"
    /\ Len(documents) = 2
    /\ \E i \in 1..Len(all_chunks) : IsTableChunk(all_chunks[i])
    /\ \E i \in 1..Len(all_chunks) :
          ~IsTableChunk(all_chunks[i]) /\ all_chunks[i].cross_references # <<>>
    /\ table_map # <<>>

(***************************************************************************)
(* The worked example: a small table followed by a sentence about it       *)
(***************************************************************************)
\* a pipe-delimited row
IsPipeRow(line) == Len(line) >= 2 /\ line[1] = "|" /\ line[Len(line)] = "|"

\* the index after the identifier of a title line "### Table <id>: <title>",
\* 0 when line is no such line
TitleIdEnd(line) ==
    LET e == IF StartsWith(line, LitHashTable)
             THEN IdEnd(line, Len(LitHashTable) + 1, FALSE) ELSE 0
    IN  IF e # 0 /\ LitAt(line, e, <<":", " ">>, FALSE) /\ Len(line) > e + 1 THEN e ELSE 0

TitleIdOf(line) == SubSeq(line, Len(LitHashTable) + 1, TitleIdEnd(line) - 1)

TitleTextOf(line) == From(line, TitleIdEnd(line) + 2)

\* the sentence mentions "See Table <id>" (or "see Table <id>") and names no
\* other table
MentionsOnly(sentence, id) ==
    /\ Cardinality({p \in 1..Len(sentence) : TableIdEnd(sentence, p, TRUE) # 0}) = 1
    /\ \E p \in 1..Len(sentence) :
          /\ LitAt(sentence, p, LitSee, TRUE)
          /\ TableIdEnd(sentence, p + Len(LitSee), FALSE) # 0
          /\ SubSeq(sentence, p + Len(LitSee) + Len(LitTable),
                    TableIdEnd(sentence, p + Len(LitSee), FALSE) - 1) = id

\* text is a title line, one or more pipe rows, and one closing sentence
\* that mentions the table; table block and sentence each fit in size
IsExample(text, size) ==
    LET lines    == SplitOn(text, NL)
        n        == Len(lines)
        sentence == lines[n]
    IN  /\ n >= 3
        /\ TitleIdEnd(lines[1]) # 0
        /\ \A i \in 2..(n - 1) : IsPipeRow(lines[i])
        /\ sentence # <<>>
        /\ sentence = Strip(sentence)
        /\ sentence[1] # "|"
        /\ MentionsOnly(sentence, TitleIdOf(lines[1]))
        /\ Len(text) - Len(sentence) <= size
        /\ Len(sentence) <= size

CeilDiv(a, b) == (a + b - 1) \div b

\* the summed length of lines, each counted with its line end
RECURSIVE SumSizes(_)
SumSizes(lines) ==
    IF lines = <<>> THEN 0 ELSE Len(lines[1]) + 1 + SumSizes(Tail(lines))

\* the first section of the document was a table longer than chunk_size and
\* has just been split: chunks holds its parts
FirstTableSplit ==
    /\ pc = "process"
    /\ sec_idx = 2
    /\ sections[1].type = "table"
    /\ Len(sections[1].content) > chunk_size

\* content has exactly one separator row
OneSeparatorRow(content) ==
    LET lines == SplitOn(content, NL)
    IN  Cardinality({i \in 1..Len(lines) : IsSeparatorRow(lines[i])}) = 1

Annotated == IF pc = "loaded" THEN {all_chunks[i] : i \in 1..Len(all_chunks)} ELSE {}

\* the list numerical_data holds under key, <<>> when it has no such key
NumericList(c, key) ==
    IF MapHas(c.numerical_data, key) THEN MapGet(c.numerical_data, key) ELSE <<>>

\* C21: a chunk whose content is one amount with separators and cents, one
\* integer term in months or years (any case) and one decimal rate carries
\* exactly these three values: rates = [the decimal], dollar_amounts = [the
\* amount without separators], terms = [the integer], and no other key.
C21_LiteralCapture ==
    \A c \in Annotated : \A ex \in NumericExamples :
        c.page_content = ex.content =>
            /\ NumericList(c, "rates") = ex.rates
            /\ NumericList(c, "dollar_amounts") = ex.dollar_amounts
            /\ NumericList(c, "terms") = ex.terms
            /\ MapKeys(c.numerical_data) = {"rates", "dollar_amounts", "terms"}
            /\ Len(c.numerical_data) = 3

\* C21 witness: the example of the specification was annotated as one chunk,
\* and so was a content with the term in capitals and the rate first
C21_Witness ==
    /\ pc = "loaded"
    /\ \E c \in Annotated : \E ex \in NumericExamples :
          /\ c.page_content = ex.content
          /\ ex.rates = <<<<525, 2>>>>
          /\ ex.dollar_amounts = <<<<12505, 1>>>>
          /\ ex.terms = <<12>>
          /\ c.page_content[1] = "$"

\* the index after the number written behind the '$' at p: all leading
\* digits, the comma groups and the decimals; 0 when no digit follows the '$'
WrittenAmountEnd(s, p) ==
    LET d1 == IF p <= Len(s) /\ s[p] = "$" THEN DigitsEnd(s, p + 1) ELSE 0
        t  == IF d1 = 0 THEN 0 ELSE ThousandsEnd(s, d1)
    IN  IF d1 = 0 THEN 0
        ELSE IF t < Len(s) /\ s[t] = "." /\ DigitsEnd(s, t + 1) # 0
        THEN DigitsEnd(s, t + 1)
        ELSE t

\* C22: every dollar amount in a chunk's content ('$10000', '$1250.50',
\* '$1,250.50') is stored in dollar_amounts as the full number written, no
\* digit lost.
C22_AmountsInFull ==
    \A c \in Annotated : \A p \in 1..Len(c.page_content) :
        WrittenAmountEnd(c.page_content, p) # 0 =>
            \E i \in 1..Len(NumericList(c, "dollar_amounts")) :
                NumericList(c, "dollar_amounts")[i] =
                    ToFloat(WithoutCommas(SubSeq(c.page_content, p + 1, WrittenAmountEnd(c.page_content, p) - 1)))

\* some rate, dollar amount or term is written in the content
HoldsNumber(s) ==
    \E p \in 1..Len(s) : RateAt(s, p)[2] # 0 \/ DollarAt(s, p) # 0 \/ TermAt(s, p)[2] # 0

\* C23: numerical_data is attached to a chunk exactly when a rate, a dollar
\* amount or a term was found in it, and an attached numerical_data never
\* holds an empty list.
C23_AttachedIffFound ==
    \A c \in Annotated :
        /\ c.numerical_data # <<>> <=> HoldsNumber(c.page_content)
        /\ \A i \in 1..Len(c.numerical_data) : c.numerical_data[i].value # <<>>

\* C23 witness: of the chunks annotated in one pass, one holds no number and
\* carries no numerical_data, another carries a numerical_data of one list
C23_Witness ==
    \E c1, c2 \in Annotated :
        /\ ~HoldsNumber(c1.page_content)
        /\ c1.numerical_data = <<>>
        /\ Len(c2.numerical_data) = 1
        /\ c2.numerical_data[1].value # <<>>

(***************************************************************************)
(* Properties of the enrichment passes                                     *)
(***************************************************************************)
\* the i-th smallest element of a set of positions
NthPosition(positions, i) ==
    CHOOSE p \in positions : Cardinality({q \in positions : q < p}) = i - 1

\* the id written at a mention position
IdMentionedAt(content, p) ==
    SubSeq(content, p + Len(LitTable), TableIdEnd(content, p, FALSE) - 1)

\* C24: the cross_references of a chunk stand in the order in which the
\* mentions stand in its content: the i-th entry is the one of the i-th
\* mention from the left.
C24_ReferencesInTextOrder ==
    \A c \in Scanned :
        LET positions == MentionPositions(c.page_content, MapKeys(table_map))
        IN  \A i \in 1..Len(c.cross_references) :
               /\ i <= Cardinality(positions)
               /\ c.cross_references[i].referenced_table
                     = IdMentionedAt(c.page_content, NthPosition(positions, i))

\* C24 witness: a chunk mentions table 2.1 before table 1.1, while table_map
\* holds 1.1 before 2.1, and its two entries stand in the order of the text
C24_Witness ==
    \E c \in Scanned :
        /\ Len(c.cross_references) = 2
        /\ c.cross_references[1].referenced_table = <<"2", ".", "1">>
        /\ c.cross_references[2].referenced_table = <<"1", ".", "1">>
        /\ Len(table_map) = 2
        /\ table_map[1].key = <<"1", ".", "1">>

\* what the chunkers produced of a chunk: content, kind, table id and part
Produced(c) == <<c.page_content, c.chunk_type, c.table_id, c.part>>

ProducedOf(chs) == [i \in 1..Len(chs) |-> Produced(chs[i])]

\* C25: the two enrichment passes change metadata only.  While the chunks of
\* a document are indexed and scanned for mentions, and when they are handed
\* over to all_chunks, and when the numeric annotation runs over all_chunks,
\* the chunks stay as many, in the same order, each with the content, kind,
\* table_id and part the chunkers gave it.
C25_MetadataOnly ==
    [][ /\ (pc \in {"xref_index", "xref_scan"} /\ pc' \in {"xref_index", "xref_scan"})
            => ProducedOf(chunks') = ProducedOf(chunks)
        /\ (pc = "xref_scan" /\ pc' = "extract")
            => ProducedOf(all_chunks') = ProducedOf(all_chunks) \o ProducedOf(chunks)
        /\ (pc = "done" /\ pc' = "loaded")
            => ProducedOf(all_chunks') = ProducedOf(all_chunks) ]_vars

\* C25 witness: both passes have acted on a chunk: it carries a
\* cross-reference and a numerical_data, and its content has an upper-case
\* letter left
C25_Witness ==
    \E c \in Annotated :
        /\ c.cross_references # <<>>
        /\ c.numerical_data # <<>>
        /\ c.content_types # <<>>
        /\ c.page_content # LowerText(c.page_content)

(***************************************************************************)
(* Properties of boundary detection                                        *)
(***************************************************************************)
\* the index of the colon in a line that begins "### Table <id>:", 0 when
\* the line is no title line
TitleColon(line) ==
    LET e == IF StartsWith(line, LitHashTable)
             THEN IdEnd(line, Len(LitHashTable) + 1, FALSE) ELSE 0
    IN  IF e # 0 /\ e <= Len(line) /\ line[e] = ":" THEN e ELSE 0

LinesOf(text) == SplitOn(text, NL)

\* line i is a title line and the line under it is a pipe row
StartsTableBlock(lines, i) ==
    /\ i < Len(lines)
    /\ TitleColon(lines[i]) # 0
    /\ IsPipeRow(lines[i + 1])

\* the text holds a table block: a title line with a pipe row directly under it
HasTableBlock(text) ==
    \E i \in 1..Len(LinesOf(text)) : StartsTableBlock(LinesOf(text), i)

\* C26: for a document with no table block, _extract_tables returns an empty
\* list, every chunk emitted for it is a text chunk without
\* cross_references, and when no document has a table block the summary
\* reports total_tables = 0.
C26_NoTableIsSilent ==
    /\ (pc = "partition" /\ ~HasTableBlock(documents[doc_idx].page_content))
          => tables = <<>>
    /\ \A i \in 1..Len(all_chunks) :
          ~HasTableBlock(documents[all_chunks[i].source.source].page_content)
             => /\ all_chunks[i].chunk_type = "text"
                /\ all_chunks[i].cross_references = <<>>
    /\ (pc = "summarized"
          /\ \A d \in 1..Len(documents) : ~HasTableBlock(documents[d].page_content))
          => summary.total_tables = 0

(***************************************************************************)
(* Properties of row classification                                        *)
(***************************************************************************)
\* C27: when a table with a separator row is split by rows, header_lines
\* are the lines up to and including the separator row and nothing else,
\* and every line after it that begins with a pipe is one of the data
\* lines, whatever its cells hold.
C27_RowsAfterSeparatorAreData ==
    [][(TableStep /\ ~FitsInOneChunk(sections[sec_idx].content, chunk_size)) =>
        LET lines == SplitOn(sections[sec_idx].content, NL)
            sep   == FirstSeparator(lines)
        IN  sep # 0 =>
              /\ HeaderLinesOf(sections[sec_idx].content) = SubSeq(lines, 1, sep)
              /\ DataLinesOf(sections[sec_idx].content)
                    = SubSeq(lines, sep + 1, Len(lines))]_vars

\* the text a title line carries after "### Table <id>:", one blank after
\* the colon left out
TextAfterColon(line) ==
    LET after == From(line, TitleColon(line) + 1)
    IN  IF after # <<>> /\ after[1] = " " THEN Tail(after) ELSE after

\* C28: the id of every boundary is the identifier of its title line; its
\* title is the text that follows the identifier and the colon, with or
\* without a blank after the colon, and 'Untitled Table' when nothing or
\* only white space follows.
C28_IdAndTitleFromTitleLine ==
    pc = "partition" =>
        \A t \in 1..Len(tables) :
            LET line == LinesOf(tables[t].content)[1]
            IN  /\ TitleColon(line) # 0
                /\ tables[t].id = SubSeq(line, Len(LitHashTable) + 1, TitleColon(line) - 1)
                /\ tables[t].title = IF Strip(TextAfterColon(line)) = <<>>
                                     THEN StrUntitledTable
                                     ELSE TextAfterColon(line)

\* the index of the last row of the table block that starts at line i
RECURSIVE BlockEnd(_, _)
BlockEnd(lines, i) ==
    IF i < Len(lines) /\ IsPipeRow(lines[i + 1]) THEN BlockEnd(lines, i + 1) ELSE i

\* the number of characters of the text that stand before line i
RECURSIVE LineOffset(_, _)
LineOffset(lines, i) ==
    IF i = 1 THEN 0 ELSE LineOffset(lines, i - 1) + Len(lines[i - 1]) + 1

\* C29: every row of a table block lies inside a boundary, the last row of
\* a text that ends without a line end included, so no row is left to a
\* text section.
C29_RowsInsideBoundary ==
    pc = "partition" =>
        LET lines == LinesOf(documents[doc_idx].page_content)
        IN  \A i \in 1..Len(lines) :
               StartsTableBlock(lines, i) =>
                  \E t \in 1..Len(tables) :
                     /\ tables[t].start <= LineOffset(lines, i)
                     /\ tables[t].end >= LineOffset(lines, BlockEnd(lines, i))
                                            + Len(lines[BlockEnd(lines, i)])

(***************************************************************************)
(* Properties of self-references                                           *)
(***************************************************************************)
\* the table ids of the document chunk c was made from
TableIdsBeside(c) ==
    {all_chunks[j].table_id : j \in {h \in 1..Len(all_chunks) :
        IsTableChunk(all_chunks[h]) /\ all_chunks[h].source = c.source}}

\* the positions at which c mentions a table of its document, the title
\* line (the first line) of a table chunk not counted
RefersAt(c) ==
    {p \in MentionPositions(c.page_content, TableIdsBeside(c)) :
        IsTableChunk(c) => p > Len(LinesOf(c.page_content)[1])}

\* C30: a table chunk that mentions a table only in its own title line
\* carries no cross_references, and cross_references_found counts the chunks
\* that mention a table elsewhere than in their own title line.
C30_NoSelfReference ==
    /\ \A i \in 1..Len(all_chunks) :
          (IsTableChunk(all_chunks[i]) /\ RefersAt(all_chunks[i]) = {})
             => all_chunks[i].cross_references = <<>>
    /\ pc = "summarized" =>
          summary.cross_references_found
             = Cardinality({i \in 1..Len(all_chunks) : RefersAt(all_chunks[i]) # {}})

====
